---- MODULE Spec2Model ----
(***************************************************************************)
(* A model of news-brief's src/main.py: the RSS -> briefing -> speech ->    *)
(* mixed-audio pipeline behind POST /generate-briefing, and its helpers.    *)
(*                                                                          *)
(* Python strings are sequences of one-character strings.  Optional values  *)
(* are records with a "kind" field.  Durations are pydub's len(): integer   *)
(* milliseconds.                                                            *)
(***************************************************************************)
EXTENDS Integers, Sequences, FiniteSets, TLC

VARIABLES
    \* ---- the request pipeline (generate_briefing and what it calls) ----
    MURF_API_KEY,       \* os.getenv('MURF_API_KEY'), read once at import
    ffmpeg_available,   \* setup_ffmpeg(), computed once at import
    pc,                 \* position of the handler
    request,            \* GenerateBriefingRequest being served
    fi,                 \* index of the next feed_url of fetch_rss_articles' loop
    all_articles,       \* fetch_rss_articles: all_articles
    sources_used,       \* fetch_rss_articles: sources_used
    briefing_text,      \* generate_briefing: briefing_text
    murf,               \* what requests.post gave (exception / response)
    speech_content,     \* speech_response.content
    speech_audio,       \* mix_audio_with_music: speech_audio
    background_music,   \* mix_audio_with_music: background_music
    mix_exc,            \* the exception pending in mix_audio_with_music's try
    mix_path,           \* what mix_audio_with_music returned
    files,              \* files under static/generated_audio
    uuids,              \* number of uuid.uuid4() tokens drawn so far
    calls,              \* outbound HTTP calls made, in order
    log,                \* logger warnings/errors emitted, in order
    response,           \* the HTTP response of the request
    \* ---- clean_text applied on its own ----
    ctext,              \* the input string
    cout,               \* <<clean_text(s), clean_text(clean_text(s))>> as computed
    \* ---- format_news_briefing applied on its own ----
    farticles,          \* the input article list
    fout                \* the script it returned

pvars == <<MURF_API_KEY, ffmpeg_available, pc, request, fi, all_articles,
           sources_used, briefing_text, murf, speech_content, speech_audio,
           background_music, mix_exc, mix_path, files, uuids, calls, log,
           response>>
cvars == <<ctext, cout>>
fvars == <<farticles, fout>>
vars == <<pvars, cvars, fvars>>

----------------------------------------------------------------------------
(* Bounds of the model *)

\* longest feeds list of a request
MaxFeeds == 2
\* largest max_articles_per_feed tried (the code allows 1..10)
MaxPerFeed == 2
\* longest speech / background track, in milliseconds
MaxSpeechMs == 5
MaxMusicMs == 3
\* number of fragments an input of clean_text is assembled from
MaxFrags == 4
\* longest article list handed to format_news_briefing on its own
MaxArticles == 22

(* Program constants *)

\* articles[:20]
ArticleCap == 20
\* [:197] + "..."
SummaryCut == 197
\* background_music - 15
AttenuationDb == 15

----------------------------------------------------------------------------
(* Python string helpers *)

Min(a, b) == IF a <= b THEN a ELSE b

\* s[:n]
Take(s, n) == SubSeq(s, 1, Min(n, Len(s)))

\* does s have p at position i
StartsAt(s, p, i) ==
    /\ i + Len(p) - 1 <= Len(s)
    /\ \A k \in 1..Len(p) : s[i + k - 1] = p[k]

\* p in s
Contains(s, p) == \E i \in 1..(Len(s) + 1) : StartsAt(s, p, i)

RECURSIVE ReplaceFrom(_, _, _, _)
ReplaceFrom(s, p, r, i) ==
    IF i > Len(s) THEN <<>>
    ELSE IF StartsAt(s, p, i) THEN r \o ReplaceFrom(s, p, r, i + Len(p))
    ELSE <<s[i]>> \o ReplaceFrom(s, p, r, i + 1)

\* s.replace(p, r), p non-empty: leftmost non-overlapping occurrences
Replace(s, p, r) == ReplaceFrom(s, p, r, 1)

IsSpace(c) == c \in {" ", "\n", "\t"}

\* index of the first ">" at or after i, 0 if none
RECURSIVE FirstGt(_, _)
FirstGt(s, i) ==
    IF i > Len(s) THEN 0
    ELSE IF s[i] = ">" THEN i
    ELSE FirstGt(s, i + 1)

\* re.sub(r'<[^>]+>', '', s) from position i: a "<", one or more characters
\* other than ">", then ">"; matches are taken leftmost and do not overlap
RECURSIVE StripTagsFrom(_, _)
StripTagsFrom(s, i) ==
    IF i > Len(s) THEN <<>>
    ELSE IF s[i] = "<" /\ FirstGt(s, i + 1) >= i + 2
         THEN StripTagsFrom(s, FirstGt(s, i + 1) + 1)
         ELSE <<s[i]>> \o StripTagsFrom(s, i + 1)

StripTags(s) == StripTagsFrom(s, 1)

\* ' '.join(s.split()) from position i; pending = a word has been emitted and
\* whitespace was seen since
RECURSIVE CollapseFrom(_, _, _, _)
CollapseFrom(s, i, started, pending) ==
    IF i > Len(s) THEN <<>>
    ELSE IF IsSpace(s[i]) THEN CollapseFrom(s, i + 1, started, started)
    ELSE (IF pending THEN <<" ">> ELSE <<>>) \o <<s[i]>>
            \o CollapseFrom(s, i + 1, TRUE, FALSE)

CollapseSpaces(s) == CollapseFrom(s, 1, FALSE, FALSE)

AMP == <<"&", "a", "m", "p", ";">>
LT == <<"&", "l", "t", ";">>
GT == <<"&", "g", "t", ";">>

DecodeEntities(s) ==
    Replace(Replace(Replace(s, AMP, <<"a", "n", "d">>), LT, <<"<">>), GT, <<">">>)

\* a faulty variant of clean_text: whitespace collapsed before the tags are stripped
clean_text_collapse_first(text) ==
    IF text = <<>> THEN <<>>
    ELSE DecodeEntities(StripTags(CollapseSpaces(text)))

clean_text(text) ==
    IF text = <<>> THEN <<>>
    ELSE DecodeEntities(CollapseSpaces(StripTags(text)))

----------------------------------------------------------------------------
(* get_source_name *)

\* source_mapping, in its insertion order: <<key, name>>
source_mapping ==
    << <<"reuters", <<"R", "e", "u", "t", "e", "r", "s">>>>,
       <<"nytimes", <<"N", "e", "w", " ", "Y", "o", "r", "k", " ", "T", "i", "m", "e", "s">>>>,
       <<"techcrunch", <<"T", "e", "c", "h", "C", "r", "u", "n", "c", "h">>>>,
       <<"bbc", <<"B", "B", "C", " ", "N", "e", "w", "s">>>>,
       <<"cnn", <<"C", "N", "N">>>>,
       <<"wsj", <<"W", "a", "l", "l", " ", "S", "t", "r", "e", "e", "t", " ", "J", "o", "u", "r", "n", "a", "l">>>> >>

Upper(c) ==
    CASE c = "a" -> "A" [] c = "b" -> "B" [] c = "m" -> "M" [] c = "y" -> "Y"
      [] c = "w" -> "W" [] c = "o" -> "O" [] c = "r" -> "R" [] c = "g" -> "G"
      [] OTHER -> c

IsAlpha(c) == c \in {"a", "b", "m", "y", "w", "o", "r", "g", "l", "i"}

\* str.title() over lower-case input: the first letter of every run of letters
\* is upper-cased
TitleCase(s) ==
    [i \in 1..Len(s) |->
        IF IsAlpha(s[i]) /\ (i = 1 \/ ~IsAlpha(s[i - 1])) THEN Upper(s[i]) ELSE s[i]]

\* index of the first "." of s, Len(s) + 1 if none
RECURSIVE FirstDot(_, _)
FirstDot(s, i) ==
    IF i > Len(s) THEN Len(s) + 1
    ELSE IF s[i] = "." THEN i
    ELSE FirstDot(s, i + 1)

\* s.split('.')[0]
FirstLabel(s) == SubSeq(s, 1, FirstDot(s, 1) - 1)

\* A feed URL is kept as what get_source_name reads of it: the source_mapping
\* keys that occur in feed_url.lower(), urlparse(feed_url).netloc (lower-case
\* here), and whether urlparse raises on it.
get_source_name(feed_url) ==
    LET hits == { i \in 1..Len(source_mapping) : source_mapping[i][1] \in feed_url.keys }
        first == CHOOSE i \in hits : \A j \in hits : i <= j
    IN  IF hits # {} THEN source_mapping[first][2]
        ELSE IF feed_url.unparsable THEN <<"N", "e", "w", "s", " ", "S", "o", "u", "r", "c", "e">>
        ELSE TitleCase(FirstLabel(Replace(feed_url.netloc, <<"w", "w", "w", ".">>, <<>>)))

----------------------------------------------------------------------------
(* The feeds of the model: what feedparser.parse gives for each feed URL *)

Opt(v) == [set |-> TRUE, val |-> v]
Missing == [set |-> FALSE, val |-> <<>>]

\* entry.get(key, default)
EntryGet(entry, key, default) == IF entry[key].set THEN entry[key].val ELSE default

E_markup == [title |-> Opt(<<"<", "b", ">", "A", "<", "/", "b", ">">>), summary |-> Opt(<<"x", " ", "&", "a", "m", "p", ";", " ", "y">>), description |-> Missing]
E_notitle == [title |-> Missing, summary |-> Opt(<<"s">>), description |-> Missing]
E_blank == [title |-> Opt(<<" ", "<", "i", ">", "<", "/", "i", ">", " ">>), summary |-> Missing, description |-> Missing]
E_desc == [title |-> Opt(<<"B">>), summary |-> Missing, description |-> Opt(<<" ", "d", " ", " ", "d", " ">>)]
E_plain == [title |-> Opt(<<"C">>), summary |-> Missing, description |-> Missing]

U_reuters_top == [id |-> "reuters_top", keys |-> {"reuters"}, unparsable |-> FALSE,
                  netloc |-> <<"r", "e", "u", "t", "e", "r", "s", ".", "c", "o", "m">>]
U_reuters_world == [id |-> "reuters_world", keys |-> {"reuters"}, unparsable |-> FALSE,
                    netloc |-> <<"r", "e", "u", "t", "e", "r", "s", ".", "c", "o", "m">>]
U_blog == [id |-> "blog", keys |-> {}, unparsable |-> FALSE,
           netloc |-> <<"w", "w", "w", ".", "m", "y", "b", "l", "o", "g", ".", "o", "r", "g">>]
U_bbc == [id |-> "bbc", keys |-> {"bbc"}, unparsable |-> FALSE,
          netloc |-> <<"b", "b", "c", ".", "c", "o", ".", "u", "k">>]
U_nyt_cnn == [id |-> "nyt_cnn", keys |-> {"nytimes", "cnn"}, unparsable |-> FALSE,
              netloc |-> <<"r", "s", "s", ".", "n", "y", "t", "i", "m", "e", "s", ".", "c", "o", "m">>]

FeedUrls == {U_reuters_top, U_reuters_world, U_blog, U_bbc, U_nyt_cnn}

\* feedparser.parse(feed_url): it raises, or gives a feed with its entries
Parse(feed_url) ==
    CASE feed_url.id = "reuters_top" ->
            [raises |-> FALSE, entries |-> <<E_markup, E_notitle, E_desc>>]
      [] feed_url.id = "reuters_world" -> [raises |-> FALSE, entries |-> <<>>]
      [] feed_url.id = "blog" -> [raises |-> FALSE, entries |-> <<E_plain, E_desc>>]
      [] feed_url.id = "bbc" -> [raises |-> TRUE, entries |-> <<>>]
      [] feed_url.id = "nyt_cnn" -> [raises |-> FALSE, entries |-> <<E_notitle, E_blank>>]

----------------------------------------------------------------------------
(* fetch_rss_articles *)

Ellipsis == <<".", ".", ".">>

\* the dict appended for one entry (before the "if title" test)
ArticleOf(entry, source_name) ==
    [source |-> source_name,
     title |-> clean_text(EntryGet(entry, "title", <<>>)),
     summary |-> Take(clean_text(EntryGet(entry, "summary",
                                          EntryGet(entry, "description", <<>>))),
                      SummaryCut) \o Ellipsis]

RECURSIVE ArticlesOf(_, _, _)
ArticlesOf(entries, i, source_name) ==
    IF i > Len(entries) THEN <<>>
    ELSE LET a == ArticleOf(entries[i], source_name)
         IN  (IF a.title # <<>> THEN <<a>> ELSE <<>>)
                \o ArticlesOf(entries, i + 1, source_name)

InSeq(x, s) == \E i \in 1..Len(s) : s[i] = x

W_NoArticles == [level |-> "warning", msg |-> "No articles found in feed"]
E_FetchFeed == [level |-> "error", msg |-> "Error fetching feed"]

\* a faulty variant of FetchFeedBody: the source name is recorded before the feed is
\* known to have entries
FetchFeedBody_source_first(acc, feed_url, max_per_feed) ==
    LET feed == Parse(feed_url)
        source_name == get_source_name(feed_url)
        sources == IF InSeq(source_name, acc.sources) THEN acc.sources
                   ELSE Append(acc.sources, source_name)
    IN  IF feed.raises
        THEN [acc EXCEPT !.log = Append(@, E_FetchFeed)]
        ELSE IF feed.entries = <<>>
        THEN [acc EXCEPT !.sources = sources, !.log = Append(@, W_NoArticles)]
        ELSE [acc EXCEPT
                !.sources = sources,
                !.articles = @ \o ArticlesOf(Take(feed.entries, max_per_feed), 1,
                                             source_name)]

\* one iteration of "for feed_url in feed_urls", on
\* acc = [articles |-> all_articles, sources |-> sources_used, log |-> log]
FetchFeedBody(acc, feed_url, max_per_feed) ==
    LET feed == Parse(feed_url)
        source_name == get_source_name(feed_url)
    IN  IF feed.raises
        THEN [acc EXCEPT !.log = Append(@, E_FetchFeed)]
        ELSE IF feed.entries = <<>>
        THEN [acc EXCEPT !.log = Append(@, W_NoArticles)]
        ELSE [acc EXCEPT
                !.sources = IF InSeq(source_name, @) THEN @ ELSE Append(@, source_name),
                !.articles = @ \o ArticlesOf(Take(feed.entries, max_per_feed), 1,
                                             source_name)]

RECURSIVE FetchFrom(_, _, _, _)
FetchFrom(acc, feed_urls, i, max_per_feed) ==
    IF i > Len(feed_urls) THEN acc
    ELSE FetchFrom(FetchFeedBody(acc, feed_urls[i], max_per_feed), feed_urls,
                   i + 1, max_per_feed)

\* fetch_rss_articles(feed_urls, max_per_feed), with the log lines it emits
fetch_rss_articles(feed_urls, max_per_feed) ==
    FetchFrom([articles |-> <<>>, sources |-> <<>>, log |-> <<>>], feed_urls, 1,
              max_per_feed)

----------------------------------------------------------------------------
(* format_news_briefing *)

\* The script is kept as the sequence of the pieces the f-strings append: the
\* dateline, one block per article, the closing; or the one "no news" sentence.
P_NoNews == [kind |-> "No news articles available at this time."]
P_Dateline(current_date) ==
    [kind |-> "Good morning from Durgapur. Here is your news briefing for",
     date |-> current_date]
P_Closing == [kind |-> "That concludes your news briefing. Have a great day!"]
P_Block(prefix, article) ==
    [kind |-> "block", prefix |-> prefix, source |-> article.source,
     title |-> article.title, summary |-> article.summary]

RECURSIVE Blocks(_, _)
Blocks(articles, i) ==
    IF i > Len(articles) THEN <<>>
    ELSE <<P_Block(IF i = 1 THEN "From" ELSE "Next, from", articles[i])>>
            \o Blocks(articles, i + 1)

\* a faulty variant of format_news_briefing: the cap is applied one article late
format_news_briefing_cap_late(articles, current_date) ==
    IF articles = <<>> THEN <<P_NoNews>>
    ELSE <<P_Dateline(current_date)>> \o Blocks(Take(articles, ArticleCap + 1), 1)
            \o <<P_Closing>>

format_news_briefing(articles, current_date) ==
    IF articles = <<>> THEN <<P_NoNews>>
    ELSE <<P_Dateline(current_date)>> \o Blocks(Take(articles, ArticleCap), 1)
            \o <<P_Closing>>

----------------------------------------------------------------------------
(* clean_text on its own: SpecClean *)

\* the pieces the inputs are assembled from: entities can be built ("&" then
\* "lt;"), and so can tags
Fragments == { <<"<">>, <<">">>, <<"&">>, <<"l", "t", ";">>, <<"g", "t", ";">>,
               <<"a", "m", "p", ";">>, <<" ">>, <<"b">>, <<"<", "b", ">">> }

RECURSIVE Strings(_)
Strings(n) ==
    IF n = 0 THEN { <<>> }
    ELSE Strings(n - 1) \cup { s \o f : s \in Strings(n - 1), f \in Fragments }

NoResponse == [kind |-> "none"]

NoPipeline ==
    /\ MURF_API_KEY = [set |-> FALSE, val |-> <<>>]
    /\ ffmpeg_available = FALSE
    /\ pc = "off"
    /\ request = [kind |-> "none"]
    /\ fi = 0
    /\ all_articles = <<>>
    /\ sources_used = <<>>
    /\ briefing_text = <<>>
    /\ murf = [exc |-> "unsent", response |-> NoResponse]
    /\ speech_content = [kind |-> "none"]
    /\ speech_audio = [kind |-> "none"]
    /\ background_music = [kind |-> "none"]
    /\ mix_exc = [kind |-> "none"]
    /\ mix_path = [kind |-> "none"]
    /\ files = {}
    /\ uuids = 0
    /\ calls = <<>>
    /\ log = <<>>
    /\ response = [kind |-> "none"]

NoClean == ctext = <<>> /\ cout = <<>>

NoFormat == farticles = <<>> /\ fout = [kind |-> "none"]

InitClean ==
    /\ NoPipeline /\ NoFormat
    /\ ctext \in Strings(MaxFrags)
    /\ cout = <<>>

\* clean_text applied to the input
CleanOnce ==
    /\ cout = <<>>
    /\ cout' = <<clean_text(ctext)>>
    /\ UNCHANGED <<ctext, pvars, fvars>>

\* clean_text applied to its own result
CleanAgain ==
    /\ Len(cout) = 1
    /\ cout' = Append(cout, clean_text(cout[1]))
    /\ UNCHANGED <<ctext, pvars, fvars>>

NextClean == CleanOnce \/ CleanAgain

SpecClean == InitClean /\ [][NextClean]_vars

\* C10 (as stated): cleaning is idempotent for every input string:
\* clean_text(clean_text(s)) = clean_text(s).
C10_Idempotent == Len(cout) = 2 => cout[2] = cout[1]

\* t holds a tag: a "<", one or more characters other than ">", then a ">"
HasTag(t) ==
    \E i \in 1..Len(t), j \in 1..Len(t) :
        /\ t[i] = "<" /\ t[j] = ">" /\ j >= i + 2
        /\ \A k \in (i + 1)..(j - 1) : t[k] # ">"

\* C10 (amended): cleaning is idempotent for every input string whose cleaned
\* form holds no tag: clean_text(clean_text(s)) = clean_text(s) unless the
\* brackets decoded from "&lt;" / "&gt;" leave a tag in clean_text(s).
C10_IdempotentUnlessTagDecoded ==
    (Len(cout) = 2 /\ ~HasTag(cout[1])) => cout[2] = cout[1]

\* an input with a tag and a "&gt;" has been cleaned twice; the first cleaning
\* stripped the tag and left a decoded ">" but no tag
C10_Witness ==
    /\ Len(cout) = 2
    /\ Contains(ctext, GT)
    /\ Contains(ctext, <<"<", "b", ">">>)
    /\ cout[1] # ctext
    /\ Contains(cout[1], <<">">>)
    /\ ~HasTag(cout[1])

----------------------------------------------------------------------------
(* format_news_briefing on its own: SpecCompose *)

Digit == <<"0", "1", "2", "3", "4", "5", "6", "7", "8", "9">>
Digits(i) == <<Digit[(i \div 10) + 1], Digit[(i % 10) + 1]>>

\* the i-th article of the k-th input family: its title tells its position
ArticleAt(i, k) ==
    [source |-> source_mapping[((i + k) % 3) + 1][2],
     title |-> Digits(i),
     summary |-> Digits(k) \o Ellipsis]

Dates == {"Monday, January 01", "Tuesday, November 03"}

InitCompose ==
    /\ NoPipeline /\ NoClean
    /\ farticles \in { [i \in 1..n |-> ArticleAt(i, k)] : n \in 0..MaxArticles, k \in 0..2 }
    /\ fout = [kind |-> "none"]

\* format_news_briefing applied to the input, on some day
Compose ==
    /\ fout.kind = "none"
    /\ \E d \in Dates :
          fout' = [kind |-> "script", text |-> format_news_briefing(farticles, d)]
    /\ UNCHANGED <<farticles, pvars, cvars>>

NextCompose == Compose

SpecCompose == InitCompose /\ [][NextCompose]_vars

\* C8: format_news_briefing emits, for n >= 1 articles, the dateline, exactly
\* min(n, 20) blocks in input order (the first opened with "From", every later
\* one with "Next, from") and the closing; for 0 articles exactly the fixed
\* "no news" sentence, with no dateline and no closing.
C8_BlocksCapped ==
    fout.kind = "script" =>
        LET t == fout.text
            n == Len(farticles)
            m == IF n <= 20 THEN n ELSE 20
        IN  IF n = 0 THEN t = <<P_NoNews>>
            ELSE /\ Len(t) = m + 2
                 /\ \E d \in Dates : t[1] = P_Dateline(d)
                 /\ t[m + 2] = P_Closing
                 /\ \A i \in 1..m :
                       t[i + 1] = [kind |-> "block",
                                   prefix |-> IF i = 1 THEN "From" ELSE "Next, from",
                                   source |-> farticles[i].source,
                                   title |-> farticles[i].title,
                                   summary |-> farticles[i].summary]
                 /\ Cardinality({ i \in 1..Len(t) : t[i].kind = "block" }) <= 20

\* more than 20 articles were supplied and the script has exactly 20 blocks
C8_Witness ==
    /\ fout.kind = "script"
    /\ Len(farticles) > 20
    /\ Cardinality({ i \in 1..Len(fout.text) : fout.text[i].kind = "block" }) = 20

----------------------------------------------------------------------------
(* The request pipeline: exceptions, responses, configuration *)

PLACEHOLDER == "PASTE_YOUR_API_KEY_HERE"

\* values of the MURF_API_KEY environment variable: unset, empty, a value that
\* holds the placeholder, a real key (a string is a sequence of pieces here)
KeyValues ==
    { [set |-> FALSE, val |-> <<>>],
      [set |-> TRUE, val |-> <<>>],
      [set |-> TRUE, val |-> <<"my-", PLACEHOLDER>>],
      [set |-> TRUE, val |-> <<"ap2_", "c0ffee">>] }

\* a faulty variant of KeyConfigured: the placeholder is not looked for
KeyConfigured_no_placeholder(key) == key.set /\ key.val # <<>>

\* not (not MURF_API_KEY or 'PASTE_YOUR_API_KEY_HERE' in MURF_API_KEY)
KeyConfigured(key) ==
    ~( (~key.set \/ key.val = <<>>) \/ Contains(key.val, <<PLACEHOLDER>>) )

HTTPException(status_code, detail) ==
    [kind |-> "HTTPException", status_code |-> status_code, detail |-> detail]

\* any other exception, with str(e)
Exc(kind, text) == [kind |-> kind, text |-> text]

\* a faulty variant of generate_briefing_except: every exception is wrapped
generate_briefing_except_wrap_all(exc) ==
    HTTPException(500, <<"An unexpected error occurred: ",
                         IF exc.kind = "HTTPException" THEN "HTTPException" ELSE exc.text>>)

\* generate_briefing's handlers: "except HTTPException: raise", then
\* "except Exception as e"
generate_briefing_except(exc) ==
    IF exc.kind = "HTTPException" THEN exc
    ELSE HTTPException(500, <<"An unexpected error occurred: ", exc.text>>)

\* what the framework answers for an HTTPException that leaves the handler
ErrorResponse(h) == [kind |-> "error", status |-> h.status_code, detail |-> h.detail]

FeedLists ==
    UNION { [1..n -> FeedUrls] : n \in 0..MaxFeeds }

----------------------------------------------------------------------------
(* The synthesis service as requests sees it *)

B_audio == [kind |-> "object", has_audioFile |-> TRUE, has_errorMessage |-> FALSE]
B_empty == [kind |-> "object", has_audioFile |-> FALSE, has_errorMessage |-> FALSE]
B_error == [kind |-> "object", has_audioFile |-> FALSE, has_errorMessage |-> TRUE]
B_array == [kind |-> "array"]
B_text == [kind |-> "not_json"]
Bodies == {B_audio, B_empty, B_error, B_array, B_text}

\* the value of the body's "errorMessage" field, where it has one
UpstreamMessage == "Invalid api key"

HttpResponse(status, body) == [kind |-> "response", status |-> status, body |-> body]

\* what requests.post / requests.get may give: a transport exception without a
\* response, a redirect loop (an exception that carries the last 3xx
\* response), or a response
PostOutcomes ==
    { [exc |-> "ConnectionError", response |-> NoResponse] }
    \cup { [exc |-> "TooManyRedirects", response |-> HttpResponse(302, b)] : b \in Bodies }
    \cup { [exc |-> "none", response |-> HttpResponse(st, b)] : st \in {200, 401}, b \in Bodies }

\* requests.Response.ok: raise_for_status() does not raise
Ok(r) == ~(400 <= r.status /\ r.status < 600)

\* "if e.response": None is false, and a Response is true exactly when it is ok
Truthy(r) == r.kind = "response" /\ Ok(r)

\* str(e) of a requests exception
StrOf(exc, r) ==
    CASE exc = "ConnectionError" -> "Connection aborted"
      [] exc = "TooManyRedirects" -> "Exceeded 30 redirects"
      [] exc = "JSONDecodeError" -> "Expecting value"
      [] exc = "HTTPError" /\ r.status = 401 -> "401 Client Error"
      [] exc = "HTTPError" /\ r.status = 404 -> "404 Client Error"
      [] OTHER -> "HTTPError"

\* response.json() then .get(...) on it: the exception it raises, if any
JsonGet(body) ==
    CASE body.kind = "array" -> Exc("AttributeError", "'list' object has no attribute 'get'")
      [] body.kind = "not_json" -> Exc("JSONDecodeError", "Expecting value")
      [] OTHER -> Exc("none", "")

\* "except requests.exceptions.RequestException as e": the exception that
\* leaves generate_audio_with_murf, for e = [exc, response]
murf_request_exception(e) ==
    IF Truthy(e.response)
    THEN IF JsonGet(e.response.body).kind # "none"
         THEN JsonGet(e.response.body)
         ELSE HTTPException(500,
                <<"Murf API communication error: ",
                  IF e.response.body.has_errorMessage THEN UpstreamMessage
                  ELSE StrOf(e.exc, e.response)>>)
    ELSE HTTPException(500, <<"Murf API communication error: ", StrOf(e.exc, e.response)>>)

\* lines 227-233 on what requests.post gave: the exception that leaves
\* generate_audio_with_murf, or kind "none" when murf_audio_url was obtained.
\* json_is_request_exc: whether this requests version raises its own
\* JSONDecodeError (a RequestException) or the json module's (a ValueError).
after_post(o, json_is_request_exc) ==
    IF o.exc # "none" THEN murf_request_exception(o)
    ELSE IF ~Ok(o.response)
    THEN murf_request_exception([exc |-> "HTTPError", response |-> o.response])
    ELSE IF o.response.body.kind = "not_json"
    THEN IF json_is_request_exc
         THEN murf_request_exception([exc |-> "JSONDecodeError", response |-> NoResponse])
         ELSE JsonGet(o.response.body)
    ELSE IF o.response.body.kind = "array" THEN JsonGet(o.response.body)
    ELSE IF ~o.response.body.has_audioFile
    THEN HTTPException(500, <<"No audio file URL in Murf response">>)
    ELSE Exc("none", "")

----------------------------------------------------------------------------
(* generate_briefing, step by step *)

Init ==
    /\ NoClean /\ NoFormat
    /\ MURF_API_KEY \in KeyValues
    /\ ffmpeg_available \in BOOLEAN
    /\ pc = "idle"
    /\ request = [kind |-> "none"]
    /\ fi = 0
    /\ all_articles = <<>>
    /\ sources_used = <<>>
    /\ briefing_text = <<>>
    /\ murf = [exc |-> "unsent", response |-> NoResponse]
    /\ speech_content = [kind |-> "none"]
    /\ speech_audio = [kind |-> "none"]
    /\ background_music = [kind |-> "none"]
    /\ mix_exc = [kind |-> "none"]
    /\ mix_path = [kind |-> "none"]
    /\ files = {}
    /\ uuids = 0
    /\ calls = <<>>
    /\ log = <<>>
    /\ response = [kind |-> "none"]

mixvars == <<speech_audio, background_music, mix_exc, mix_path, files, uuids>>

\* an exception leaves the try of generate_briefing (or is raised before it)
Raise(exc) ==
    /\ response' = ErrorResponse(generate_briefing_except(exc))
    /\ pc' = "done"

\* a request arrives; lines 255-258
Validate ==
    /\ pc = "idle"
    /\ \E feeds \in FeedLists, m \in 1..MaxPerFeed :
          request' = [kind |-> "request", feeds |-> feeds, max_articles_per_feed |-> m]
    /\ IF request'.feeds = <<>>
       THEN /\ response' = ErrorResponse(HTTPException(400, <<"No RSS feed URLs provided">>))
            /\ pc' = "done" /\ fi' = fi
       ELSE IF ~KeyConfigured(MURF_API_KEY)
       THEN /\ response' = ErrorResponse(HTTPException(500,
                                <<"Murf API key is not configured on the server.">>))
            /\ pc' = "done" /\ fi' = fi
       ELSE /\ pc' = "fetch" /\ fi' = 1 /\ response' = response
    /\ UNCHANGED <<MURF_API_KEY, ffmpeg_available, all_articles, sources_used,
                   briefing_text, murf, speech_content, mixvars, calls, log,
                   cvars, fvars>>

\* one iteration of fetch_rss_articles' loop: one feed is fetched and parsed
FetchFeed ==
    /\ pc = "fetch" /\ fi <= Len(request.feeds)
    /\ LET acc == FetchFeedBody([articles |-> all_articles, sources |-> sources_used,
                                 log |-> log],
                                request.feeds[fi], request.max_articles_per_feed)
       IN  /\ all_articles' = acc.articles
           /\ sources_used' = acc.sources
           /\ log' = acc.log
    /\ calls' = Append(calls, [op |-> "GET", to |-> "feed", url |-> request.feeds[fi].id])
    /\ fi' = fi + 1
    /\ UNCHANGED <<MURF_API_KEY, ffmpeg_available, pc, request, briefing_text, murf,
                   speech_content, mixvars, response, cvars, fvars>>

\* a faulty variant of NoContent: the sources are tested, not the articles
NoContent_by_sources(articles, sources) == sources = <<>>

\* "if not articles" of line 263
NoContent(articles, sources) == articles = <<>>

\* fetch_rss_articles returned; lines 263-266
Composed ==
    /\ pc = "fetch" /\ fi > Len(request.feeds)
    /\ IF NoContent(all_articles, sources_used)
       THEN /\ Raise(HTTPException(400,
                        <<"Could not find any articles from the provided feeds.">>))
            /\ briefing_text' = briefing_text
       ELSE /\ \E d \in Dates : briefing_text' = format_news_briefing(all_articles, d)
            /\ pc' = "synth" /\ response' = response
    /\ UNCHANGED <<MURF_API_KEY, ffmpeg_available, request, fi, all_articles,
                   sources_used, murf, speech_content, mixvars, calls, log,
                   cvars, fvars>>

\* generate_audio_with_murf, lines 227-233: the synthesis POST and its reading
SynthPost ==
    /\ pc = "synth"
    /\ calls' = Append(calls, [op |-> "POST", to |-> "murf", url |-> "speech/generate"])
    /\ \E o \in PostOutcomes, v \in BOOLEAN :
          /\ murf' = o
          /\ IF after_post(o, v).kind = "none"
             THEN pc' = "download" /\ response' = response
             ELSE Raise(after_post(o, v))
    /\ UNCHANGED <<MURF_API_KEY, ffmpeg_available, request, fi, all_articles,
                   sources_used, briefing_text, speech_content, mixvars, log,
                   cvars, fvars>>

\* what requests.get(murf_audio_url) may give; the bytes of a 200 are kept as
\* the duration they decode to and whether they decode at all
GetOutcomes ==
    { [exc |-> "ConnectionError", response |-> NoResponse],
      [exc |-> "TooManyRedirects", response |-> HttpResponse(302, B_error)],
      [exc |-> "TooManyRedirects", response |-> HttpResponse(302, B_text)],
      [exc |-> "none", response |-> HttpResponse(404, B_error)] }
    \cup { [exc |-> "none",
            response |-> HttpResponse(200, [kind |-> "bytes", dur |-> d, mp3 |-> ok])] :
           d \in 0..MaxSpeechMs, ok \in BOOLEAN }

\* lines 236-237 on what requests.get gave
after_get(o) ==
    IF o.exc # "none" THEN murf_request_exception(o)
    ELSE IF ~Ok(o.response)
    THEN murf_request_exception([exc |-> "HTTPError", response |-> o.response])
    ELSE Exc("none", "")

\* generate_audio_with_murf, lines 235-237: the audio download
Download ==
    /\ pc = "download"
    /\ calls' = Append(calls, [op |-> "GET", to |-> "murf", url |-> "audioFile"])
    /\ \E o \in GetOutcomes :
          IF after_get(o).kind = "none"
          THEN /\ speech_content' = o.response.body
               /\ pc' = "mix" /\ response' = response
          ELSE /\ Raise(after_get(o))
               /\ speech_content' = speech_content
    /\ UNCHANGED <<MURF_API_KEY, ffmpeg_available, request, fi, all_articles,
                   sources_used, briefing_text, murf, mixvars, log, cvars, fvars>>

----------------------------------------------------------------------------
(* mix_audio_with_music, step by step *)

\* a pydub AudioSegment: its len() in milliseconds and the gain applied to it
Segment(dur) == [kind |-> "segment", dur |-> dur, gain |-> 0]

\* how writing a new file may end: written; failed before the file was
\* created (open() raised); failed after it was created (the write or the
\* encoder raised, and the file stays behind)
IOOutcomes == {"ok", "fails_before_create", "fails_after_create"}

\* the files that exist once a write of a new file `name` ended as io
Written(name, content, dur, gain, io) ==
    IF io = "ok"
    THEN { [name |-> name, content |-> content, dur |-> dur, music_gain |-> gain,
            complete |-> TRUE] }
    ELSE IF io = "fails_after_create"
    THEN { [name |-> name, content |-> content, dur |-> 0, music_gain |-> gain,
            complete |-> FALSE] }
    ELSE {}

\* f"/static/generated_audio/briefing_{token}.mp3"
Path(name) == [kind |-> "path", name |-> name]

W_NoFfmpeg == [level |-> "warning", msg |-> "FFmpeg not available. Saving speech-only audio."]
W_NoMusic == [level |-> "warning", msg |-> "Background music file not found"]
E_Mixing == [level |-> "error", msg |-> "Error during audio mixing"]
E_Fallback == [level |-> "error", msg |-> "Fallback audio save also failed"]

pipevars == <<MURF_API_KEY, ffmpeg_available, request, fi, all_articles, sources_used,
              briefing_text, murf, speech_content, calls>>

\* a faulty variant of TryWrite: a failed write is not noticed and the path is returned
TryWrite_unnoticed(content, dur, gain, io) ==
    /\ uuids' = uuids + 1
    /\ files' = files \cup Written(uuids + 1, content, dur, gain, io)
    /\ mix_path' = Path(uuids + 1) /\ pc' = "mixed" /\ mix_exc' = mix_exc

\* a write inside the try ended as io: return the path, or go to the except
TryWrite(content, dur, gain, io) ==
    /\ uuids' = uuids + 1
    /\ files' = files \cup Written(uuids + 1, content, dur, gain, io)
    /\ IF io = "ok"
       THEN mix_path' = Path(uuids + 1) /\ pc' = "mixed" /\ mix_exc' = mix_exc
       ELSE /\ mix_exc' = Exc(IF content = "speech bytes" THEN "OSError"
                              ELSE "CouldntEncodeError", "write failed")
            /\ pc' = "mix_fallback" /\ mix_path' = mix_path

\* lines 166-175: no toolchain -> the bytes are saved; else the speech is decoded
MixStart ==
    /\ pc = "mix"
    /\ IF ~ffmpeg_available
       THEN /\ log' = Append(log, W_NoFfmpeg)
            /\ \E io \in IOOutcomes :
                  TryWrite("speech bytes", speech_content.dur, 0, io)
            /\ speech_audio' = speech_audio
       ELSE /\ log' = log
            /\ IF speech_content.mp3
               THEN /\ speech_audio' = Segment(speech_content.dur)
                    /\ pc' = "mix_music" /\ mix_exc' = mix_exc
               ELSE /\ mix_exc' = Exc("CouldntDecodeError", "decoding failed")
                    /\ pc' = "mix_fallback" /\ speech_audio' = speech_audio
            /\ UNCHANGED <<mix_path, files, uuids>>
    /\ UNCHANGED <<pipevars, background_music, response, cvars, fvars>>

\* lines 177-185: no background asset -> the decoded speech is exported; else
\* the asset is loaded
MixMusic ==
    /\ pc = "mix_music"
    /\ \E exists \in BOOLEAN :
          IF ~exists
          THEN /\ log' = Append(log, W_NoMusic)
               /\ \E io \in IOOutcomes :
                     TryWrite("speech", speech_audio.dur, 0, io)
               /\ background_music' = background_music
          ELSE /\ log' = log
               /\ \E loaded \in {-1} \cup 0..MaxMusicMs :
                     IF loaded = -1
                     THEN /\ mix_exc' = Exc("CouldntDecodeError", "decoding failed")
                          /\ pc' = "mix_fallback"
                          /\ background_music' = background_music
                     ELSE /\ background_music' = Segment(loaded)
                          /\ pc' = "mix_loop" /\ mix_exc' = mix_exc
               /\ UNCHANGED <<mix_path, files, uuids>>
    /\ UNCHANGED <<pipevars, speech_audio, response, cvars, fvars>>

\* a faulty variant of loops_needed: the "+ 1" is missing
loops_needed_floor(speech_duration, music_len) == speech_duration \div music_len

\* line 189
loops_needed(speech_duration, music_len) == (speech_duration \div music_len) + 1

\* lines 186-190: a background shorter than the speech is repeated
MixLoop ==
    /\ pc = "mix_loop"
    /\ LET speech_duration == speech_audio.dur
       IN  IF background_music.dur < speech_duration
           THEN IF background_music.dur = 0
                THEN /\ mix_exc' = Exc("ZeroDivisionError",
                                       "integer division or modulo by zero")
                     /\ pc' = "mix_fallback"
                     /\ background_music' = background_music
                ELSE /\ background_music' =
                            [background_music EXCEPT
                                !.dur = @ * loops_needed(speech_duration, @)]
                     /\ pc' = "mix_trim" /\ mix_exc' = mix_exc
           ELSE /\ pc' = "mix_trim"
                /\ UNCHANGED <<background_music, mix_exc>>
    /\ UNCHANGED <<pipevars, speech_audio, mix_path, files, uuids, log, response,
                   cvars, fvars>>

\* line 192: background_music[:speech_duration]
MixTrim ==
    /\ pc = "mix_trim"
    /\ background_music' =
            [background_music EXCEPT !.dur = Min(@, speech_audio.dur)]
    /\ pc' = "mix_export"
    /\ UNCHANGED <<pipevars, speech_audio, mix_exc, mix_path, files, uuids, log,
                   response, cvars, fvars>>

\* a.overlay(b): b laid over a; the result is as long as a
Overlay(a, b) == [kind |-> "segment", dur |-> a.dur, gain |-> a.gain]

\* lines 193-203: the background is attenuated, the speech laid over it, and
\* the result exported
MixExport ==
    /\ pc = "mix_export"
    /\ LET quiet_music == [background_music EXCEPT !.gain = @ - AttenuationDb]
           final_audio == Overlay(quiet_music, speech_audio)
       IN  \E io \in IOOutcomes :
              TryWrite("speech over music", final_audio.dur, final_audio.gain, io)
    /\ UNCHANGED <<pipevars, speech_audio, background_music, log, response,
                   cvars, fvars>>

\* lines 205-217: the except of the try, and the except of its fallback
MixFallback ==
    /\ pc = "mix_fallback"
    /\ uuids' = uuids + 1
    /\ \E io \in IOOutcomes :
          /\ files' = files \cup Written(uuids + 1, "speech bytes",
                                         speech_content.dur, 0, io)
          /\ IF io = "ok"
             THEN /\ log' = Append(log, E_Mixing)
                  /\ mix_path' = Path(uuids + 1)
                  /\ pc' = "mixed" /\ response' = response
             ELSE /\ log' = log \o <<E_Mixing, E_Fallback>>
                  /\ Raise(HTTPException(500,
                            <<"Failed to process audio: ", mix_exc.text>>))
                  /\ mix_path' = mix_path
    /\ UNCHANGED <<pipevars, speech_audio, background_music, mix_exc, cvars, fvars>>

\* lines 241-246 and 274-280: the answer of a request that went through
Respond ==
    /\ pc = "mixed"
    /\ response' = [kind |-> "ok", status |-> 200,
                    audio_url |-> mix_path,
                    briefing_text |-> briefing_text,
                    articles_count |-> Len(all_articles),
                    sources |-> sources_used]
    /\ pc' = "done"
    /\ UNCHANGED <<pipevars, mixvars, log, cvars, fvars>>

Next ==
    \/ Validate
    \/ FetchFeed
    \/ Composed
    \/ SynthPost
    \/ Download
    \/ MixStart
    \/ MixMusic
    \/ MixLoop
    \/ MixTrim
    \/ MixExport
    \/ MixFallback
    \/ Respond

Spec == Init /\ [][Next]_vars

----------------------------------------------------------------------------
(* Properties of the pipeline *)

Requested == request.kind = "request"

\* fetch_rss_articles has gone through the whole feed list
Fetched == Requested /\ fi > Len(request.feeds)

FeedGets == [i \in 1..Len(request.feeds) |->
                [op |-> "GET", to |-> "feed", url |-> request.feeds[i].id]]

PostAt(i) == calls[i].op = "POST"
AudioGetAt(i) == calls[i].op = "GET" /\ calls[i].to = "murf"

ErrorWith(status, detail) ==
    response = [kind |-> "error", status |-> status, detail |-> detail]

\* the credential is unset, empty, or holds the placeholder
BadKey ==
    \/ ~MURF_API_KEY.set
    \/ MURF_API_KEY.val = <<>>
    \/ \E i \in 1..Len(MURF_API_KEY.val) : MURF_API_KEY.val[i] = PLACEHOLDER

\* C1: a request with an empty feed list, or served while the credential is
\* unset or holds the placeholder, has failed (400 for the empty list, else
\* 500) with no outbound call made and no file written.
C1_PreconditionsFirst ==
    (Requested /\ (request.feeds = <<>> \/ BadKey)) =>
        /\ pc = "done"
        /\ response.kind = "error"
        /\ response.status = (IF request.feeds = <<>> THEN 400 ELSE 500)
        /\ calls = <<>>
        /\ files = {}
        /\ uuids = 0

\* a request with feeds was refused because the credential holds the placeholder
C1_Witness ==
    /\ Requested /\ request.feeds # <<>>
    /\ MURF_API_KEY.set /\ MURF_API_KEY.val # <<>> /\ BadKey
    /\ pc = "done" /\ response.status = 500 /\ calls = <<>>

\* C2: a synthesis POST is made only after every feed was fetched and only if
\* the fetch returned an article; and a request whose feeds all gave no
\* article has failed with 400 "no articles" once the feeds were fetched,
\* with the feed fetches as its only outbound calls.
C2_NoSynthesisWithoutArticles ==
    /\ \A i \in 1..Len(calls) :
          PostAt(i) => /\ Fetched
                       /\ all_articles # <<>>
                       /\ i = Len(request.feeds) + 1
                       /\ SubSeq(calls, 1, i - 1) = FeedGets
    /\ (Fetched /\ all_articles = <<>> /\ pc # "fetch") =>
          /\ pc = "done"
          /\ ErrorWith(400, <<"Could not find any articles from the provided feeds.">>)
          /\ calls = FeedGets
          /\ files = {}

\* two feeds or more were fetched, one of them gave a source name, none an
\* article, and the request failed with 400
C2_Witness ==
    /\ Fetched /\ Len(request.feeds) >= 2
    /\ all_articles = <<>> /\ sources_used # <<>>
    /\ pc = "done" /\ response.status = 400
    /\ calls = FeedGets

\* the synthesis POST was answered 200 with a JSON object without "audioFile"
NoAudioUrl ==
    /\ murf.exc = "none" /\ murf.response.kind = "response"
    /\ murf.response.status = 200
    /\ murf.response.body.kind = "object"
    /\ ~murf.response.body.has_audioFile

PostSucceeded ==
    /\ murf.exc = "none" /\ murf.response.kind = "response"
    /\ murf.response.status = 200
    /\ murf.response.body.kind = "object"
    /\ murf.response.body.has_audioFile

\* C3: when the synthesis POST is answered with a successful response without
\* an audio-file URL, the request fails with 500 "No audio file URL in Murf
\* response" as raised (not rewrapped), no download is made and no file is
\* written; a file is written only after the synthesis POST and the audio
\* download both succeeded.
C3_NoAudioUrlNoFile ==
    /\ NoAudioUrl =>
          /\ pc = "done"
          /\ ErrorWith(500, <<"No audio file URL in Murf response">>)
          /\ files = {}
          /\ \A i \in 1..Len(calls) : ~AudioGetAt(i)
    /\ files # {} =>
          /\ PostSucceeded
          /\ speech_content.kind = "bytes"
          /\ Len(calls) = Len(request.feeds) + 2
          /\ PostAt(Len(calls) - 1) /\ AudioGetAt(Len(calls))

\* the POST was answered 200 with an object without "audioFile" and the
\* request has failed
C3_Witness ==
    /\ NoAudioUrl /\ pc = "done" /\ response.status = 500
    /\ \E i \in 1..Len(calls) : PostAt(i)

\* C4: when the synthesis endpoint answers with a non-success status and a
\* body that carries an upstream error message, the failure's detail carries
\* that message (not the transport exception's own text).
C4_UpstreamMessagePassed ==
    ( /\ pc = "done"
      /\ murf.exc = "none" /\ murf.response.kind = "response"
      /\ murf.response.status >= 400
      /\ murf.response.body.kind = "object"
      /\ murf.response.body.has_errorMessage )
    => ErrorWith(500, <<"Murf API communication error: ", UpstreamMessage>>)

\* the feeds that neither raise nor come back without entries
Yields(feed_url) == ~Parse(feed_url).raises /\ Parse(feed_url).entries # <<>>

\* C5: a feed that yields zero entries or whose fetch/parse raises contributes
\* no article and no source name and does not stop the loop: every feed is
\* fetched, in order, and the articles and sources are those of the input
\* list with such feeds left out.
C5_SkippedFeedsLeaveNoTrace ==
    Fetched =>
        LET kept == SelectSeq(request.feeds, Yields)
            r == fetch_rss_articles(kept, request.max_articles_per_feed)
        IN  /\ all_articles = r.articles
            /\ sources_used = r.sources
            /\ SubSeq(calls, 1, Len(request.feeds)) = FeedGets
            /\ \A i \in 1..Len(sources_used) :
                  \E j \in 1..Len(request.feeds) :
                     /\ Yields(request.feeds[j])
                     /\ get_source_name(request.feeds[j]) = sources_used[i]
            /\ \A i \in 1..Len(all_articles) : InSeq(all_articles[i].source, sources_used)

\* a feed without entries came before a feed of the same source that has
\* articles, and the loop has finished
C5_Witness ==
    /\ Fetched /\ Len(request.feeds) = 2
    /\ ~Parse(request.feeds[1]).raises /\ Parse(request.feeds[1]).entries = <<>>
    /\ Yields(request.feeds[2])
    /\ get_source_name(request.feeds[1]) = get_source_name(request.feeds[2])
    /\ all_articles # <<>>
    /\ Len(sources_used) = 1

MixReturned == pc = "mixed" \/ (pc = "done" /\ response.kind = "ok")
MixFailed ==
    /\ pc = "done" /\ response.kind = "error"
    /\ response.detail[1] = "Failed to process audio: "
MixEntered == speech_content.kind = "bytes" /\ pc \in {"mixed", "done"}

\* C6: mix_audio_with_music ends in one of two ways only: it returns the
\* reference of a file that was written (the raw speech bytes, in a file of
\* its own, whenever an exception was caught), or it fails with 500 "Failed
\* to process audio", and this only when the fallback write has failed too.
C6_MixReturnsFileOrFails ==
    /\ MixEntered => (MixReturned \/ MixFailed)
    /\ MixReturned =>
          /\ mix_path.kind = "path"
          /\ \E f \in files : f.name = mix_path.name /\ f.complete
          /\ Cardinality({ f \in files : f.name = mix_path.name }) = 1
          /\ mix_exc.kind # "none" =>
                /\ InSeq(E_Mixing, log)
                /\ \E f \in files :
                      /\ f.name = mix_path.name
                      /\ f.content = "speech bytes" /\ f.dur = speech_content.dur
    /\ MixFailed =>
          /\ response.status = 500
          /\ mix_exc.kind # "none"
          /\ InSeq(E_Mixing, log) /\ InSeq(E_Fallback, log)
          /\ \A f \in files : ~f.complete
    /\ (MixEntered /\ InSeq(E_Fallback, log)) => MixFailed

\* the export of the mix failed, the exception was caught and the raw speech
\* was saved by the fallback
C6_Witness ==
    /\ MixReturned /\ mix_exc.kind = "CouldntEncodeError"
    /\ InSeq(E_Mixing, log)
    /\ \E f \in files : f.name = mix_path.name /\ f.complete /\ f.content = "speech bytes"

\* C7: over a request at most one new file appears under the output
\* directory, and on success it is the one named by the returned audio_url.
C7_OneFilePerRequest ==
    /\ Cardinality(files) <= 1
    /\ (pc = "done" /\ response.kind = "ok") =>
          \A f \in files : f.name = response.audio_url.name

\* C9: after the loop step the background is at least as long as the speech;
\* after the truncation it is exactly as long; and every mixed file that was
\* written lasts exactly as long as the speech.
C9_MixDuration ==
    /\ pc = "mix_trim" => background_music.dur >= speech_audio.dur
    /\ pc = "mix_export" => background_music.dur = speech_audio.dur
    /\ \A f \in files :
          (f.content = "speech over music" /\ f.complete) =>
              /\ f.dur = speech_content.dur
              /\ f.music_gain = -15

\* a mix was written for a speech longer than any background asset of the
\* model (so the background was looped), as long as the speech
C9_Witness ==
    \E f \in files :
       /\ f.content = "speech over music" /\ f.complete
       /\ f.dur = speech_content.dur
       /\ f.dur > MaxMusicMs

====
